---------------------------- MODULE Spec2Model ----------------------------
(***************************************************************************)
(* A model of jsonrpc2/mixin.py: RequestHandlerMixin.handle_request and    *)
(* _validate_request, the response classes they build and the encoder      *)
(* that turns a response into its wire fields.                             *)
(*                                                                         *)
(* One behaviour is one call handle_request(data) on one handler object.   *)
(* The call is cut into the blocks of the source: decoding (lines          *)
(* 150-155), the shape and version checks with the extraction of the       *)
(* fields (163-172), resolution (174-176, 191-192), invocation and the     *)
(* typed except clauses (177-186), the catch-all clause (187-190).  A call *)
(* ends with pc = "done" (a response was returned) or pc = "raised" (an    *)
(* exception left handle_request).                                         *)
(***************************************************************************)
EXTENDS Integers, Sequences, FiniteSets, TLC

VARIABLES
    data,        \* the argument of handle_request
    handler,     \* self: the object the mixin is mixed into
    pc,          \* position in handle_request / _validate_request
    request,     \* request / request_object: the decoded payload
    method,      \* local of _validate_request (line 170)
    params,      \* local of _validate_request (line 171)
    request_id,  \* local of _validate_request (line 172)
    outcome,     \* what the call of method_invoked did (line 179)
    invoked,     \* names of the operations whose body was entered
    logged,      \* number of calls of self._logger.exception
    hash_order,  \* the order in which this run iterates params when it is a dict
    response,    \* the value handle_request returned
    exc          \* the exception that left handle_request

vars == <<data, handler, pc, request, method, params, request_id,
          outcome, invoked, logged, hash_order, response, exc>>

---------------------------------------------------------------------------
(* Bounds of the inputs.                                                   *)

\* Longest params array of a request.
MaxParams == 2

\* Numeric request identifiers are 0 .. MaxId.
MaxId == 1

---------------------------------------------------------------------------
(* Decoded JSON values, as simplejson builds them: None, bool, number,     *)
(* string, list, dict.  All are records [k, v] so that any two compare.    *)

RPC_VERSION == "2.0"

JNull == [k |-> "null", v |-> 0]

JBool(b) == [k |-> "bool", v |-> b]

JNum(n) == [k |-> "num", v |-> n]

JStr(s) == [k |-> "str", v |-> s]

JArray(items) == [k |-> "array", v |-> items]

JObject(fields) == [k |-> "object", v |-> fields]

\* The characters of the strings the model iterates over or measures.
Chars(s) ==
    CASE s = "" -> <<>>
      [] s = "HI" -> <<"H", "I">>
      [] s = "123" -> <<"1", "2", "3">>

\* len(x), line 163: defined for str, list and dict; TypeError otherwise.
HasLen(x) == x.k \in {"str", "array", "object"}

PyLen(x) ==
    CASE x.k = "str" -> Len(Chars(x.v))
      [] x.k = "array" -> Len(x.v)
      [] x.k = "object" -> Cardinality(DOMAIN x.v)

\* x.get(key), lines 166 and 170-172: only a dict has it; a missing key
\* gives None.
HasGet(x) == x.k = "object"

Get(x, key) == IF key \in DOMAIN x.v THEN x.v[key] ELSE JNull

---------------------------------------------------------------------------
(* The response classes, lines 59-119.  A response object is the record of *)
(* its instance attributes; "__class__" names its class and "_exclude" is  *)
(* the list BaseResourceResponse.__init__ sets.                            *)

BaseResourceResponse(cls, request_id_) ==
    [__class__ |-> cls, id |-> request_id_, _exclude |-> {}]

WithAttr(obj, name, value) ==
    [f \in DOMAIN obj \cup {name} |-> IF f = name THEN value ELSE obj[f]]

InternalError(request_id_) ==
    WithAttr(BaseResourceResponse("InternalError", request_id_), "error",
             [code |-> -32603, message |-> "Internal error."])

NonExistentMethodError(request_id_) ==
    WithAttr(BaseResourceResponse("NonExistentMethodError", request_id_), "error",
             [code |-> -32601, message |-> "Method not found."])

InvalidJSONError(request_id_) ==
    WithAttr(BaseResourceResponse("InvalidJSONError", request_id_), "error",
             [code |-> -32700, message |-> "Parse error."])

invalidRequestObjecError(request_id_) ==
    WithAttr(BaseResourceResponse("invalidRequestObjecError", request_id_), "error",
             [code |-> -32600, message |-> "Invalid Request."])

\* CustomException answering with the fixed internal-error pair instead of
\* the exception's own code and message.
CustomException_FixedCode(e, request_id_) ==
    WithAttr(BaseResourceResponse("CustomException", request_id_), "error",
             [code |-> -32603, message |-> "Internal error."])

\* e is the exception instance: the record of its attributes.
CustomException(e, request_id_) ==
    WithAttr(BaseResourceResponse("CustomException", request_id_), "error",
             [code |-> e.code, message |-> e.message])

\* SuccessResponse built without passing the request id on.
SuccessResponse_DropsId(result, request_id_) ==
    WithAttr(BaseResourceResponse("SuccessResponse", JNull), "result", result)

SuccessResponse(result, request_id_) ==
    WithAttr(BaseResourceResponse("SuccessResponse", request_id_), "result", result)

\* Before handle_request has returned.
NoResponse == [__class__ |-> "none"]

\* field.startswith('_'), line 53, over the attribute names of a response.
StartsWithUnderscore(field) == field \in {"__class__", "_exclude"}

\* ResourceResponseJSONEncoder.default, lines 49-57: the wire object of a
\* response, its public attributes plus the version tag.
Encode(obj) ==
    LET public == {f \in DOMAIN obj : ~StartsWithUnderscore(f) /\ f \notin obj["_exclude"]}
    IN  [f \in public \cup {"jsonrpc"} |-> IF f = "jsonrpc" THEN JStr(RPC_VERSION) ELSE obj[f]]

---------------------------------------------------------------------------
(* The handler: self.  Its class contributes the operations, the instance  *)
(* may carry a _logger, and _get_protected_handler may be overridden to    *)
(* return a companion object.                                              *)

\* An attribute of the handler that a request can name: a method with its
\* positional parameter names (after self), whether it takes **kwargs, and
\* what its body does; or a plain data attribute.
Op(pos, kw, body) == [callable |-> TRUE, pos |-> pos, kw |-> kw, body |-> body]

DataAttr == [callable |-> FALSE, pos |-> <<>>, kw |-> FALSE, body |-> "none"]

\* tests/parsing/test_parsing.py, SimpleController.
SimpleControllerOps ==
    [n \in {"echo", "custom_exception", "internal_error"} |->
        CASE n = "echo" -> Op(<<"message">>, TRUE, "return_arg")
          [] n = "custom_exception" -> Op(<<>>, TRUE, "raise_app")
          [] n = "internal_error" -> Op(<<>>, TRUE, "raise_exception")]

\* A controller with the other kinds of operation an application can mix in:
\* one without parameters, two returning a SuccessResponse they built (the
\* first with the default request_id, the second with the id of the call), one
\* whose body raises TypeError, one without **kwargs, one raising a bare
\* BaseJSONRPCException, an override of handle_request, one that the
\* protected companion also exposes, and one with two positional parameters
\* that returns the first.
RichControllerOps ==
    [n \in DOMAIN SimpleControllerOps \cup
           {"ping", "prebuilt", "prebuilt_id", "type_error_body", "no_kwargs",
            "bare_app_exception", "handle_request", "secret", "first"} |->
        CASE n \in DOMAIN SimpleControllerOps -> SimpleControllerOps[n]
          [] n = "ping" -> Op(<<>>, TRUE, "return_const")
          [] n = "prebuilt" -> Op(<<>>, TRUE, "return_success")
          [] n = "prebuilt_id" -> Op(<<>>, TRUE, "return_success_id")
          [] n = "type_error_body" -> Op(<<>>, TRUE, "raise_type_error")
          [] n = "no_kwargs" -> Op(<<"message">>, FALSE, "return_arg")
          [] n = "bare_app_exception" -> Op(<<>>, TRUE, "raise_app_bare")
          [] n = "handle_request" -> Op(<<"data">>, FALSE, "return_const")
          [] n = "secret" -> Op(<<>>, TRUE, "return_const")
          [] n = "first" -> Op(<<"a", "b">>, TRUE, "return_arg")]

ClassOps(cls) ==
    CASE cls = "RequestHandlerMixin" -> [n \in {} |-> DataAttr]
      [] cls = "SimpleController" -> SimpleControllerOps
      [] cls = "RichController" -> RichControllerOps

\* The instance attributes of self: _logger when the application set one.
InstanceAttrs(h) == IF h.logger = "none" THEN {} ELSE {"_logger"}

\* dir(RequestHandlerMixin), line 175: the mixin's own methods and the names
\* every object has.
DirObject ==
    {"__class__", "__doc__", "__init__", "__str__", "__dict__", "__module__"}

DirRequestHandlerMixin ==
    DirObject \cup {"_get_protected_handler", "handle_request", "_validate_request"}

\* dir(None): None has neither __dict__ nor __module__.
DirNone == {"__class__", "__doc__", "__init__", "__str__"}

\* self._get_protected_handler(), lines 134-140 and 174, and dir() of what it
\* returns: None by default, else a companion exposing "secret".
DirProtectedHandler(h) ==
    IF h.protected THEN DirObject \cup {"secret"} ELSE DirNone

\* dir(self), line 176.
DirSelf(h) == DirRequestHandlerMixin \cup DOMAIN ClassOps(h.cls) \cup InstanceAttrs(h)

\* protected_methods built from the companion alone.
protected_methods_CompanionOnly(h) == DirProtectedHandler(h)

\* protected_methods, line 175.
protected_methods(h) == DirRequestHandlerMixin \cup DirProtectedHandler(h)

\* `method in L` for a decoded value and a list of names: only a string
\* equals a name.
InNames(m, names) == m.k = "str" /\ m.v \in names

\* The condition of line 176.
Resolves(h, m) == InNames(m, DirSelf(h)) /\ ~InNames(m, protected_methods(h))

\* getattr(self, method), line 177, for a method that resolved.
GetAttr(h, name) ==
    IF name \in DOMAIN ClassOps(h.cls) THEN ClassOps(h.cls)[name] ELSE DataAttr

---------------------------------------------------------------------------
(* The call of method_invoked with params and request_object, line 179.    *)

\* An exception instance: its class and the attributes the code reads.
\* Raised is an exception the interpreter, json.loads or the logger raises:
\* its message is a text of the Python build, which nothing in the module
\* reads, and the record leaves it out.  Constructed is `raise X()` in an
\* operation: no arguments, so message is "".  Only MyException defines code.
NoExc == [type |-> "none"]

Raised(type) == [type |-> type]

Constructed(type) == [type |-> type, message |-> ""]

MyException == [type |-> "MyException", code |-> 1, message |-> "My Custom Exception"]

\* isinstance(e, TypeError), line 183.
IsTypeError(e) == e.type = "TypeError"

\* isinstance(e, BaseJSONRPCException), line 185.
IsBaseJSONRPCException(e) == e.type \in {"BaseJSONRPCException", "MyException"}

\* isinstance(invoked_result, SuccessResponse), line 180.
IsSuccessResponse(x) == "__class__" \in DOMAIN x /\ x["__class__"] = "SuccessResponse"

\* What a call did: it returned a value, or raised while the arguments were
\* unpacked and bound (where = "call"), or raised inside the body.
NoOutcome == [kind |-> "none", where |-> "none", value |-> JNull, exc |-> NoExc]

Returns(value) == [kind |-> "return", where |-> "body", value |-> value, exc |-> NoExc]

Raises(where, e) == [kind |-> "raise", where |-> where, value |-> JNull, exc |-> e]

\* *params: a list gives its items, a string its characters, a dict its
\* keys; None, a bool and a number cannot be unpacked.  A Python 2 dict
\* iterates in hash order, which the payload does not decide: order is the
\* order of this run, any arrangement of the keys.
Unpackable(p) == p.k \in {"array", "str", "object"}

PositionalArgs(p, order) ==
    CASE p.k = "array" -> p.v
      [] p.k = "str" -> [i \in 1..Len(Chars(p.v)) |-> JStr(Chars(p.v)[i])]
      [] p.k = "object" -> [i \in 1..Len(order) |-> JStr(order[i])]

\* Python's binding of the positional arguments and the keywords of
\* **request_object to the parameters of a bound method without defaults:
\* self is already bound, so a member named "self" is a second value for it.
PosIndex(op, name) == CHOOSE i \in 1..Len(op.pos) : op.pos[i] = name

IsParam(op, name) == \E i \in 1..Len(op.pos) : op.pos[i] = name

BindFails(op, args, req) ==
    \/ ~op.callable
    \/ "self" \in DOMAIN req.v
    \/ Len(args) > Len(op.pos)
    \/ \E key \in DOMAIN req.v :
          IF IsParam(op, key) THEN PosIndex(op, key) <= Len(args) ELSE ~op.kw
    \/ \E i \in (Len(args) + 1)..Len(op.pos) : op.pos[i] \notin DOMAIN req.v

Bound(op, args, req) ==
    [i \in 1..Len(op.pos) |-> IF i <= Len(args) THEN args[i] ELSE req.v[op.pos[i]]]

\* The body of an operation, by its kind.
Body(op, bound, req) ==
    CASE op.body = "return_arg" -> Returns(bound[1])
      [] op.body = "return_const" -> Returns(JStr("pong"))
      [] op.body = "return_success" -> Returns(SuccessResponse(JStr("pong"), JNull))
      [] op.body = "return_success_id" ->
            Returns(SuccessResponse(JStr("pong"), Get(req, "id")))
      [] op.body = "raise_app" -> Raises("body", MyException)
      [] op.body = "raise_app_bare" -> Raises("body", Constructed("BaseJSONRPCException"))
      [] op.body = "raise_exception" -> Raises("body", Constructed("Exception"))
      [] op.body = "raise_type_error" -> Raises("body", Constructed("TypeError"))

Call(op, p, req, order) ==
    IF ~Unpackable(p) THEN Raises("call", Raised("TypeError"))
    ELSE IF BindFails(op, PositionalArgs(p, order), req)
    THEN Raises("call", Raised("TypeError"))
    ELSE Body(op, Bound(op, PositionalArgs(p, order), req), req)

---------------------------------------------------------------------------
(* The inputs: the raw payloads and the handlers.                          *)

\* json.loads(data), line 151: data is None, text that does not parse, or
\* text that parses to a value.
NoPayload == [present |-> FALSE, wellformed |-> FALSE, value |-> JNull]

Malformed == [present |-> TRUE, wellformed |-> FALSE, value |-> JNull]

Text(value) == [present |-> TRUE, wellformed |-> TRUE, value |-> value]

\* json.loads taking None for the text "null".
json_loads_NoneIsNull(d) ==
    IF ~d.present THEN [ok |-> TRUE, exc |-> NoExc, value |-> JNull]
    ELSE IF ~d.wellformed THEN [ok |-> FALSE, exc |-> Raised("JSONDecodeError"), value |-> JNull]
    ELSE [ok |-> TRUE, exc |-> NoExc, value |-> d.value]

json_loads(d) ==
    IF ~d.present THEN [ok |-> FALSE, exc |-> Raised("TypeError"), value |-> JNull]
    ELSE IF ~d.wellformed THEN [ok |-> FALSE, exc |-> Raised("JSONDecodeError"), value |-> JNull]
    ELSE [ok |-> TRUE, exc |-> NoExc, value |-> d.value]

\* A key the object does not have.
Absent == [k |-> "absent", v |-> 0]

MakeObject(j, m, p, i, e, sf) ==
    LET c == [jsonrpc |-> j, method |-> m, params |-> p, id |-> i, message |-> e,
              self |-> sf]
        present == {f \in DOMAIN c : c[f].k # "absent"}
    IN  JObject([f \in present |-> c[f]])

JsonrpcChoices == {Absent, JStr("2.0"), JStr("1.0"), JNum(2)}

MethodNames ==
    DOMAIN RichControllerOps \cup {"update", "_validate_request", "__init__", "_logger"}

MethodChoices == {Absent, JNum(1)} \cup {JStr(n) : n \in MethodNames}

ParamVals == {JStr("HI"), JNum(1)}

ParamsChoices ==
    {Absent, JNum(1), JStr(""), JStr("123"),
     JObject([f \in {} |-> JNull]), JObject([f \in {"hi"} |-> JNum(1)]),
     JObject([f \in {"method", "params"} |-> JNum(1)])}
        \cup {JArray(s) : s \in UNION {[1..n -> ParamVals] : n \in 0..MaxParams}}

IdChoices == {Absent, JStr("a")} \cup {JNum(i) : i \in 0..MaxId}

MessageChoices == {Absent, JStr("HI")}

SelfChoices == {Absent, JNum(1)}

Objects ==
    {MakeObject(j, m, p, i, e, sf) :
        j \in JsonrpcChoices, m \in MethodChoices, p \in ParamsChoices,
        i \in IdChoices, e \in MessageChoices, sf \in SelfChoices}

NonObjects ==
    {JNull, JNum(1), JBool(TRUE), JStr(""), JStr("HI"),
     JArray(<<>>), JArray(<<JNum(1)>>)}

Payloads == {NoPayload, Malformed} \cup {Text(x) : x \in NonObjects \cup Objects}

Handlers ==
    {[cls |-> "RequestHandlerMixin", logger |-> "none", protected |-> FALSE]}
        \cup [cls : {"SimpleController", "RichController"},
              logger : {"none", "ok", "raises"},
              protected : BOOLEAN]

---------------------------------------------------------------------------
(* handle_request and _validate_request.                                   *)

\* The keys of params when the payload is an object whose params is an
\* object, and the orders a dict of them can iterate in.
ParamsKeys(d) ==
    IF /\ d.present /\ d.wellformed
       /\ d.value.k = "object"
       /\ "params" \in DOMAIN d.value.v
       /\ d.value.v["params"].k = "object"
    THEN DOMAIN d.value.v["params"].v
    ELSE {}

Orders(S) ==
    {o \in [1..Cardinality(S) -> S] : \A i, j \in 1..Cardinality(S) : o[i] = o[j] => i = j}

Init ==
    /\ data \in Payloads
    /\ handler \in Handlers
    /\ pc = "start"
    /\ request = JNull
    /\ method = JNull
    /\ params = JNull
    /\ request_id = JNull
    /\ outcome = NoOutcome
    /\ invoked = {}
    /\ logged = 0
    /\ hash_order \in Orders(ParamsKeys(data))
    /\ response = NoResponse
    /\ exc = NoExc

\* `return r` out of handle_request.
Return(r) == pc' = "done" /\ response' = r /\ exc' = exc

\* An exception no except clause catches.
Propagate(e) == pc' = "raised" /\ exc' = e /\ response' = response

\* Neither: the call goes on at `next`.
Goto(next) == pc' = next /\ response' = response /\ exc' = exc

\* Lines 150-155.
Decode ==
    /\ pc = "start"
    /\ IF json_loads(data).ok
       THEN Goto("validate") /\ request' = json_loads(data).value
       ELSE Return(InvalidJSONError(JNull)) /\ request' = request
    /\ UNCHANGED <<data, handler, hash_order, method, params, request_id, outcome, invoked, logged>>

\* Lines 163-168: what the shape and version checks do with a decoded value.
Checked(req) ==
    IF ~HasLen(req) THEN [to |-> "raised", exc |-> Raised("TypeError"), response |-> NoResponse]
    ELSE IF PyLen(req) < 1
    THEN [to |-> "done", exc |-> NoExc, response |-> InvalidJSONError(JNull)]
    ELSE IF ~HasGet(req)
    THEN [to |-> "raised", exc |-> Raised("AttributeError"), response |-> NoResponse]
    ELSE IF Get(req, "jsonrpc") # JStr(RPC_VERSION)
    THEN [to |-> "done", exc |-> NoExc, response |-> invalidRequestObjecError(JNull)]
    ELSE [to |-> "resolve", exc |-> NoExc, response |-> NoResponse]

\* Lines 163-172.
Validate ==
    /\ pc = "validate"
    /\ LET c == Checked(request)
       IN  /\ pc' = c.to
           /\ exc' = c.exc
           /\ response' = c.response
           /\ IF c.to = "resolve"
              THEN /\ method' = Get(request, "method")
                   /\ params' = Get(request, "params")
                   /\ request_id' = Get(request, "id")
              ELSE UNCHANGED <<method, params, request_id>>
    /\ UNCHANGED <<data, handler, hash_order, request, outcome, invoked, logged>>

\* Lines 174-176 and 191-192.
Resolve ==
    /\ pc = "resolve"
    /\ IF Resolves(handler, method)
       THEN Goto("invoke")
       ELSE Return(NonExistentMethodError(request_id))
    /\ UNCHANGED <<data, handler, hash_order, request, method, params, request_id,
                   outcome, invoked, logged>>

\* Lines 180-186: the response for an outcome of the call, or the exception
\* that leaves, or the catch-all clause.
Classified(o, rid) ==
    IF o.kind = "return"
    THEN [to |-> "done", exc |-> NoExc,
          response |-> IF IsSuccessResponse(o.value) THEN o.value
                       ELSE SuccessResponse(o.value, rid)]
    ELSE IF IsTypeError(o.exc)
    THEN [to |-> "done", exc |-> NoExc, response |-> invalidRequestObjecError(rid)]
    ELSE IF IsBaseJSONRPCException(o.exc)
    THEN IF "code" \in DOMAIN o.exc
         THEN [to |-> "done", exc |-> NoExc, response |-> CustomException(o.exc, rid)]
         ELSE [to |-> "raised", exc |-> Raised("AttributeError"), response |-> NoResponse]
    ELSE [to |-> "except", exc |-> NoExc, response |-> NoResponse]

\* Lines 177-186.
Invoke ==
    /\ pc = "invoke"
    /\ LET o == Call(GetAttr(handler, method.v), params, request, hash_order)
           c == Classified(o, request_id)
       IN  /\ outcome' = o
           /\ invoked' = IF o.where = "body" THEN invoked \cup {method.v} ELSE invoked
           /\ pc' = c.to
           /\ exc' = c.exc
           /\ response' = c.response
    /\ UNCHANGED <<data, handler, hash_order, request, method, params, request_id, logged>>

\* hasattr(self, '_logger'), line 188.
HasLogger(h) == "_logger" \in InstanceAttrs(h)

\* Lines 187-190: self._logger.exception(...) may itself raise.
CatchAll ==
    /\ pc = "except"
    /\ logged' = IF HasLogger(handler) THEN logged + 1 ELSE logged
    /\ IF HasLogger(handler) /\ handler.logger = "raises"
       THEN Propagate(Raised("LoggerError"))
       ELSE Return(InternalError(request_id))
    /\ UNCHANGED <<data, handler, hash_order, request, method, params, request_id, outcome, invoked>>

Next == Decode \/ Validate \/ Resolve \/ Invoke \/ CatchAll

Spec == Init /\ [][Next]_vars

---------------------------------------------------------------------------
(* Properties of handle_request.                                           *)

\* handle_request has ended: it returned or an exception left it.
Terminal == pc \in {"done", "raised"}

\* The payload was decoded to a non-empty object whose jsonrpc is "2.0".
VersionValid ==
    /\ request.k = "object"
    /\ "jsonrpc" \in DOMAIN request.v
    /\ request.v["jsonrpc"] = [k |-> "str", v |-> "2.0"]

\* The id field of the request, None when it has none.
RequestIdField == IF "id" \in DOMAIN request.v THEN request.v["id"] ELSE JNull

\* The response returned is the Error variant with this code.
ErrorWith(code) ==
    /\ pc = "done"
    /\ "error" \in DOMAIN Encode(response)
    /\ "result" \notin DOMAIN Encode(response)
    /\ Encode(response)["error"].code = code

\* C1: whatever the payload and the handler, handle_request ends by
\* returning a response with exactly one of result and error; no exception
\* leaves it.
C1_AlwaysReturnsResponse ==
    Terminal =>
        /\ pc = "done"
        /\ ("error" \in DOMAIN Encode(response)) # ("result" \in DOMAIN Encode(response))

\* C2: a decoded payload that is not a non-empty object, or whose jsonrpc
\* field is missing or not "2.0", is answered with code -32600 and a null id.
C2_InvalidRequestIs32600 ==
    (/\ Terminal
     /\ data.present /\ data.wellformed
     /\ ~VersionValid)
        => (ErrorWith(-32600) /\ response["id"] = JNull)

\* C3: a version-valid request whose method is not a name the handler
\* exposes, or is a name of RequestHandlerMixin or of the protected
\* companion, is answered with code -32601 and the request's id, and no
\* operation is invoked, also when the handler defines that name itself.
C3_GuardedOrUnknownIs32601 ==
    LET own == IF handler.cls = "RequestHandlerMixin" THEN {}
               ELSE IF handler.cls = "SimpleController"
               THEN {"echo", "custom_exception", "internal_error"}
               ELSE {"echo", "custom_exception", "internal_error", "ping", "prebuilt",
                     "prebuilt_id", "type_error_body", "no_kwargs", "bare_app_exception",
                     "handle_request", "secret", "first"}
        exposed == own \cup (IF handler.logger = "none" THEN {} ELSE {"_logger"})
                       \cup {"__init__", "handle_request", "_validate_request",
                             "_get_protected_handler"}
        guard == {"__init__", "handle_request", "_validate_request",
                  "_get_protected_handler"}
                     \cup (IF handler.protected THEN {"secret"} ELSE {})
        name == IF "method" \in DOMAIN request.v THEN request.v["method"] ELSE JNull
    IN  (/\ Terminal
         /\ VersionValid
         /\ \/ name.k # "str"
            \/ name.v \notin exposed
            \/ name.v \in guard)
            => /\ ErrorWith(-32601)
               /\ response["id"] = RequestIdField
               /\ invoked = {}

\* C3 happens: handle_request is named on a handler that overrides it, the
\* request carries an id, and the answer is -32601.
C3_Witness ==
    /\ pc = "done"
    /\ handler.cls = "RichController"
    /\ method = JStr("handle_request")
    /\ request_id = JNum(1)
    /\ response["error"].code = -32601

\* C4: when the invoked operation returns a plain value v, the response is
\* the Success variant with result v and the request's id, and has no error
\* field; for echo called with a one-element params list, v is that element.
C4_PlainValueIsWrapped ==
    (/\ Terminal
     /\ outcome.kind = "return"
     /\ "__class__" \notin DOMAIN outcome.value)
        => /\ pc = "done"
           /\ "error" \notin DOMAIN Encode(response)
           /\ "result" \in DOMAIN Encode(response)
           /\ Encode(response)["result"] = outcome.value
           /\ Encode(response)["id"] = RequestIdField
           /\ (method = JStr("echo") /\ params.k = "array" /\ Len(params.v) = 1)
                 => Encode(response)["result"] = params.v[1]

\* C4 happens: echo("HI") on a request with id 1 gave result "HI".
C4_Witness ==
    /\ pc = "done"
    /\ method = JStr("echo")
    /\ params = JArray(<<JStr("HI")>>)
    /\ request_id = JNum(1)
    /\ invoked = {"echo"}
    /\ response["result"] = JStr("HI")

\* C5: when the body of the invoked operation raises anything but a
\* BaseJSONRPCException, the response is the Error variant -32603 "Internal
\* error." with the request's id.  Stated for handlers whose logger does not
\* raise, which C9 is about.
C5_UndeclaredFailureIs32603 ==
    (/\ Terminal
     /\ handler.logger # "raises"
     /\ outcome.kind = "raise"
     /\ outcome.where = "body"
     /\ outcome.exc.type \notin {"BaseJSONRPCException", "MyException"})
        => /\ ErrorWith(-32603)
           /\ response["error"].message = "Internal error."
           /\ response["id"] = RequestIdField

\* C6: when the invoked operation raises a BaseJSONRPCException with code c
\* and message m, the response is the Error variant {code: c, message: m}
\* with the request's id, and has no result field.
C6_DeclaredFailureCarriesCode ==
    (/\ Terminal
     /\ outcome.kind = "raise"
     /\ outcome.exc.type \in {"BaseJSONRPCException", "MyException"}
     /\ "code" \in DOMAIN outcome.exc)
        => /\ pc = "done"
           /\ "result" \notin DOMAIN Encode(response)
           /\ "error" \in DOMAIN Encode(response)
           /\ Encode(response)["error"] =
                  [code |-> outcome.exc.code, message |-> outcome.exc.message]
           /\ Encode(response)["id"] = RequestIdField

\* C6 happens: custom_exception raised MyException on a request with id 1.
C6_Witness ==
    /\ pc = "done"
    /\ method = JStr("custom_exception")
    /\ request_id = JNum(1)
    /\ invoked = {"custom_exception"}
    /\ response["error"] = [code |-> 1, message |-> "My Custom Exception"]

\* C7: a payload that cannot be decoded (None, or malformed text) is
\* answered with code -32700 and a null id, and neither validation nor
\* resolution nor any operation runs.
C7_UndecodableIs32700 ==
    (~data.present \/ ~data.wellformed)
        => /\ pc \in {"start", "done"}
           /\ pc = "done" => (ErrorWith(-32700) /\ response["id"] = JNull)
           /\ invoked = {}
           /\ outcome.kind = "none"

\* C7 happens: handle_request(None) returned the parse error.
C7_Witness ==
    /\ pc = "done"
    /\ ~data.present
    /\ response["error"].code = -32700

\* C8: a version-valid request without params is treated as one with
\* params = []: when it names a resolvable operation that takes no positional
\* arguments, the call does what it does with an empty argument list, and a
\* plain return value is answered with the Success variant and the request's
\* id.
C8_AbsentParamsIsEmpty ==
    (/\ Terminal
     /\ VersionValid
     /\ "params" \notin DOMAIN request.v
     /\ Resolves(handler, method)
     /\ GetAttr(handler, method.v).callable
     /\ GetAttr(handler, method.v).pos = <<>>)
        => /\ outcome = Call(GetAttr(handler, method.v), JArray(<<>>), request, hash_order)
           /\ (outcome.kind = "return" /\ ~IsSuccessResponse(outcome.value))
                 => /\ pc = "done"
                    /\ "result" \in DOMAIN Encode(response)
                    /\ Encode(response)["id"] = RequestIdField

\* C9: when the operation raises an unanticipated failure and the handler's
\* _logger raises in exception(), handle_request still returns the Error
\* variant -32603 with the request's id.
C9_LoggerFailureIsHarmless ==
    (/\ Terminal
     /\ handler.logger = "raises"
     /\ outcome.kind = "raise"
     /\ outcome.exc.type = "Exception")
        => /\ ErrorWith(-32603)
           /\ response["id"] = RequestIdField

\* C10: every response returned for a request that passed the shape and
\* version checks carries the request's id, a SuccessResponse the operation
\* built included.
C10_IdIsCarried ==
    (pc = "done" /\ VersionValid) => response["id"] = RequestIdField

===========================================================================
